---- MODULE Spec2Model ----
(***************************************************************************)
(* yabai-menu (src/main.rs): a menu-bar indicator of the yabai layout of   *)
(* the active space.  The process has a main (AppKit) thread, which runs   *)
(* main(), the delegate, the status item's action and the workspace        *)
(* observer, and a poller thread spawned by main().  Both write the        *)
(* process-wide YabaiState through set_layout, under its Mutex; the main   *)
(* thread renders the layout when it handles a Message::UpdateIcon.        *)
(***************************************************************************)
EXTENDS Naturals, FiniteSets

\* ------------------------------------------------------------------ bounds

\* layout changes made to the window manager by anything but this program
MaxExtChanges == 1

\* clicks on the status item
MaxToggles == 1

\* ------------------------------------------------------------- data model

\* enum YabaiSpaceLayout
YabaiSpaceLayout == {"Float", "Bsp"}

\* #[default] Float
DefaultLayout == "Float"

\* no layout held: the OnceCell not filled yet, a local not assigned yet
NoLayout == "none"

\* the main thread (AppKit run loop) and the thread of the state update loop
Threads == {"main", "poller"}

\* nobody holds the Mutex of YabaiState.inner
Free == "free"

\* a match whose arms both give Bsp
OppositeStuck(l) == "Bsp"

\* the match of toggle_layout: Float => Bsp, Bsp => Float
Opposite(l) == IF l = "Float" THEN "Bsp" ELSE "Float"

\* ------------------------------------------- the output of the query command

\* the keys SpaceResponse requires besides "type"; none has a serde default
OtherFields == {"id", "uuid", "index", "label", "display"}

\* values the "type" key of an output can hold
TypeNames == {"bsp", "float", "BSP", "Bsp", "FLOAT", "Float", "stack"}

\* the output has no "type" key
NoType == "missing"

\* outputs of `yabai -m query --spaces --space`: json says the text is a JSON
\* object, fields which required keys it holds (with values of their types)
Responses == [json : BOOLEAN, fields : SUBSET OtherFields,
              type : TypeNames \cup {NoType}]

\* no output read yet
NoResponse == [json |-> FALSE, fields |-> {}, type |-> NoType]

\* a variant match that falls back to the #[default] variant
VariantOfDefault(s) ==
    IF s = "bsp" THEN "Bsp" ELSE DefaultLayout

\* a variant match that folds the letter case first
VariantOfCaseless(s) ==
    IF s \in {"float", "Float", "FLOAT"} THEN "Float"
    ELSE IF s \in {"bsp", "Bsp", "BSP"} THEN "Bsp"
    ELSE NoLayout

\* the Deserialize of YabaiSpaceLayout under rename_all = "lowercase": the
\* variant whose lower-cased name is the string, NoLayout for an unknown variant
VariantOf(s) ==
    IF s = "float" THEN "Float"
    ELSE IF s = "bsp" THEN "Bsp"
    ELSE NoLayout

\* serde_json::from_str::<SpaceResponse>(..).map(|r| r.r#type): the layout,
\* or NoLayout for an Err (not JSON, a required key absent, an unknown variant)
from_str(r) ==
    IF r.json /\ r.fields = OtherFields /\ r.type # NoType
    THEN VariantOf(r.type)
    ELSE NoLayout

\* YabaiSpaceLayout::to_string
to_string(l) == IF l = "Float" THEN "float" ELSE "bsp"

\* what the query command prints for a space whose layout is l
YabaiOutput(l) == [json |-> TRUE, fields |-> OtherFields, type |-> to_string(l)]

VARIABLES
    running,      \* the process is alive
    pc,           \* per thread, where it is
    ctx,          \* per thread, who called the update / set_layout in progress
    arg,          \* per thread, the local `new_layout` (update) / `layout` (toggle)
    layout,       \* YabaiStateInner.layout
    lock,         \* the holder of the Mutex, or Free
    external,     \* the layout of the active space inside the window manager
    extChanges,   \* outside changes so far
    toggles,      \* clicks so far
    observing,    \* the WorkspaceObserver is registered
    launched,     \* did_finish_launching has stored the status item
    pending,      \* Message::UpdateIcon blocks waiting on the main queue
    iconLayout,   \* the local `layout` of update_icon
    shown,        \* the layout whose icon and tooltip the status item shows
    ret,          \* per thread, what its last set_layout call returned
    created,      \* how many times the closure of get_or_init ran
    primed,       \* the update() inside shared() has returned
    changes,      \* how many times inner.layout changed value
    notified,     \* how many UpdateIcon messages were dispatched
    sh,           \* per thread, its set_layout call in progress
    seen,         \* per thread, inner.layout when its update() in progress queried
    dirty,        \* per thread, the other thread wrote since its update() queried
    race,         \* the two update() calls that overlap with one queried layout
    togRead,      \* the inner.layout the toggle in progress matched on
    applied,      \* the layout the toggle in progress has applied
    atFail,       \* what held when a change_space_layout of a toggle failed
    bgFailed,     \* a query failed in the poller or in the observer
    lastSet,      \* the argument of the set_layout call that returned last
    wire          \* the output of the query command a thread is about to parse

vars == <<running, pc, ctx, arg, layout, lock, external, extChanges, toggles,
          observing, launched, pending, iconLayout, shown, ret, created, primed,
          changes, notified, sh, seen, dirty, race, togRead, applied, atFail,
          bgFailed, lastSet, wire>>

NoCall == [cmp |-> "none", n0 |-> 0]

NoRace == [open |-> FALSE, v |-> NoLayout, prev |-> NoLayout, dirty |-> FALSE,
           fires |-> 0, left |-> 0]

NoFail == [failed |-> FALSE, layout |-> NoLayout, notified |-> 0]

\* the state at process start, before main() has run a line
Init ==
    /\ running = TRUE
    /\ pc = [t \in Threads |-> IF t = "main" THEN "start" ELSE "unspawned"]
    /\ ctx = [t \in Threads |-> "none"]
    /\ arg = [t \in Threads |-> NoLayout]
    /\ layout = NoLayout
    /\ lock = Free
    /\ external \in YabaiSpaceLayout
    /\ extChanges = 0
    /\ toggles = 0
    /\ observing = FALSE
    /\ launched = FALSE
    /\ pending = 0
    /\ iconLayout = NoLayout
    /\ shown = NoLayout
    /\ ret = [t \in Threads |-> "none"]
    /\ created = 0
    /\ primed = FALSE
    /\ changes = 0
    /\ notified = 0
    /\ sh = [t \in Threads |-> NoCall]
    /\ seen = [t \in Threads |-> NoLayout]
    /\ dirty = [t \in Threads |-> FALSE]
    /\ race = NoRace
    /\ togRead = NoLayout
    /\ applied = NoLayout
    /\ atFail = NoFail
    /\ bgFailed = FALSE
    /\ lastSet = NoLayout
    /\ wire = NoResponse

\* ------------------------------------------------- YabaiState::shared, main

\* a get_or_init closure without its state.update()
SharedInitNoPrime ==
    /\ running /\ pc["main"] = "start"
    /\ layout' = DefaultLayout
    /\ created' = created + 1
    /\ pc' = [pc EXCEPT !["main"] = "spawn"]
    /\ UNCHANGED <<running, ctx, arg, lock, external, extChanges, toggles,
                   observing, launched, pending, iconLayout, shown, ret, primed,
                   changes, notified, sh, seen, dirty, race, togRead, applied,
                   atFail, bgFailed, lastSet, wire>>

\* main() line 301: the first YabaiState::shared() fills the OnceCell with the
\* default inner state (line 99) and goes on to state.update() (line 101)
SharedInit ==
    /\ running /\ pc["main"] = "start"
    /\ layout' = DefaultLayout
    /\ created' = created + 1
    /\ pc' = [pc EXCEPT !["main"] = "upd_query"]
    /\ ctx' = [ctx EXCEPT !["main"] = "prime"]
    /\ UNCHANGED <<running, arg, lock, external, extChanges, toggles, observing,
                   launched, pending, iconLayout, shown, ret, primed, changes,
                   notified, sh, seen, dirty, race, togRead, applied, atFail,
                   bgFailed, lastSet, wire>>

\* thread::spawn of the state update loop; the loop sleeps a second before each
\* state.update()
SpawnPoller ==
    /\ running /\ pc["main"] = "spawn"
    /\ pc' = [pc EXCEPT !["main"] = "observe", !["poller"] = "upd_query"]
    /\ ctx' = [ctx EXCEPT !["poller"] = "update"]
    /\ UNCHANGED <<running, arg, layout, lock, external, extChanges, toggles,
                   observing, launched, pending, iconLayout, shown, ret,
                   created, primed, changes, notified, sh, seen, dirty, race,
                   togRead, applied, atFail, bgFailed, lastSet, wire>>

\* addObserver_selector_name_object, then App::new(..).run()
AddObserver ==
    /\ running /\ pc["main"] = "observe"
    /\ observing' = TRUE
    /\ pc' = [pc EXCEPT !["main"] = "run"]
    /\ UNCHANGED <<running, ctx, arg, layout, lock, external, extChanges,
                   toggles, launched, pending, iconLayout, shown, ret, created,
                   primed, changes, notified, sh, seen, dirty, race, togRead,
                   applied, atFail, bgFailed, lastSet, wire>>

\* ------------------------------------------------------- YabaiState::update

\* the other thread
Other(t) == IF t = "main" THEN "poller" ELSE "main"

\* thread u is inside an update(): its query has returned, its set_layout has not
InUpdate(u) ==
    /\ pc[u] \in {"set_lock", "set_dispatch", "set_unlock"}
    /\ ctx[u] \in {"prime", "update"}

\* the update() of thread u has dispatched its UpdateIcon already
HasFired(u) == pc[u] = "set_unlock" /\ sh[u].cmp = "differ"

\* the overlap that begins when thread t queries `v` while the other thread is
\* inside an update() that queried the same layout
RaceAtQuery(t, v) ==
    IF InUpdate(Other(t)) /\ arg[Other(t)] = v
    THEN [open |-> TRUE, v |-> v, prev |-> seen[Other(t)],
          dirty |-> dirty[Other(t)],
          fires |-> IF HasFired(Other(t)) THEN 1 ELSE 0, left |-> 2]
    ELSE NoRace

\* line 117: get_layout_for_current_space() returns the parsed response; its
\* r#type is what line 118 passes to set_layout
update_parsed(t, r) ==
    /\ running /\ pc[t] = "upd_query"
    /\ from_str(r) # NoLayout
    /\ arg' = [arg EXCEPT ![t] = from_str(r)]
    /\ pc' = [pc EXCEPT ![t] = "set_lock"]
    /\ seen' = [seen EXCEPT ![t] = layout]
    /\ dirty' = [dirty EXCEPT ![t] = FALSE]
    /\ race' = RaceAtQuery(t, from_str(r))
    /\ UNCHANGED <<running, ctx, layout, lock, external, extChanges, toggles,
                   observing, launched, pending, iconLayout, shown, ret,
                   created, primed, changes, notified, sh, togRead, applied,
                   atFail, bgFailed, lastSet, wire>>

\* update() against the window manager: the command prints the layout the
\* active space has at that moment
update_query(t) == update_parsed(t, YabaiOutput(external))

\* lines 45/47: the unwrap() of the query panics on the main thread inside
\* main(): the process exits
shared_query_panic ==
    /\ running /\ pc["main"] = "upd_query" /\ ctx["main"] = "prime"
    /\ running' = FALSE
    /\ UNCHANGED <<pc, ctx, arg, layout, lock, external, extChanges, toggles,
                   observing, launched, pending, iconLayout, shown, ret,
                   created, primed, changes, notified, sh, seen, dirty, race,
                   togRead, applied, atFail, bgFailed, lastSet, wire>>

\* lines 45/47 under line 246: the unwrap() panics inside the extern "C" method
\* of the observer; a panic cannot leave it, the process aborts
observer_query_panic ==
    /\ running /\ pc["main"] = "upd_query" /\ ctx["main"] = "update"
    /\ running' = FALSE
    /\ bgFailed' = TRUE
    /\ UNCHANGED <<pc, ctx, arg, layout, lock, external, extChanges, toggles,
                   observing, launched, pending, iconLayout, shown, ret,
                   created, primed, changes, notified, sh, seen, dirty, race,
                   togRead, applied, atFail, lastSet, wire>>

\* lines 45/47 under line 310, panic = "unwind" (the default profile): the
\* spawned thread ends, main() never joins it, the process goes on
poller_query_panic_unwind ==
    /\ running /\ pc["poller"] = "upd_query"
    /\ pc' = [pc EXCEPT !["poller"] = "dead"]
    /\ bgFailed' = TRUE
    /\ UNCHANGED <<running, ctx, arg, layout, lock, external, extChanges,
                   toggles, observing, launched, pending, iconLayout, shown,
                   ret, created, primed, changes, notified, sh, seen, dirty,
                   race, togRead, applied, atFail, lastSet, wire>>

\* the same panic in a build with panic = "abort"
poller_query_panic_abort ==
    /\ running /\ pc["poller"] = "upd_query"
    /\ running' = FALSE
    /\ bgFailed' = TRUE
    /\ UNCHANGED <<pc, ctx, arg, layout, lock, external, extChanges, toggles,
                   observing, launched, pending, iconLayout, shown, ret,
                   created, primed, changes, notified, sh, seen, dirty, race,
                   togRead, applied, atFail, lastSet, wire>>

\* --------------------------------------------------- YabaiState::set_layout

\* where a thread goes on once its set_layout call has returned
AfterSet(t) ==
    IF ctx[t] = "prime" THEN "spawn"
    ELSE IF t = "poller" THEN "upd_query"
    ELSE "loop"

\* the record of the call: what the comparison of line 108 is, and the number of
\* messages dispatched when the lock was taken
Call(t) == [cmp |-> IF arg[t] # layout THEN "differ" ELSE "same", n0 |-> notified]

\* a write of inner.layout by thread t falls inside the update() in progress of
\* the other thread
DirtyAfterWrite(t) ==
    [u \in Threads |-> dirty[u] \/ (u # t /\ InUpdate(u))]

\* a toggle's write falls inside the overlap of two update() calls
RaceAfterWrite(t) ==
    IF race.open /\ ctx[t] = "toggle" THEN [race EXCEPT !.dirty = TRUE] ELSE race

\* a set_layout that stores and notifies without comparing
set_layout_store_always(t) ==
    /\ running /\ pc[t] = "set_lock"
    /\ lock = Free
    /\ lock' = t
    /\ sh' = [sh EXCEPT ![t] = Call(t)]
    /\ layout' = arg[t]
    /\ changes' = IF arg[t] # layout THEN changes + 1 ELSE changes
    /\ dirty' = DirtyAfterWrite(t)
    /\ race' = RaceAfterWrite(t)
    /\ pc' = [pc EXCEPT ![t] = "set_dispatch"]
    /\ UNCHANGED <<running, ctx, arg, external, extChanges, toggles, observing,
                   launched, pending, iconLayout, shown, ret, created, primed,
                   notified, seen, togRead, applied, atFail, bgFailed, lastSet, wire>>

\* a set_layout that compares and notifies but does not store
set_layout_store_lost(t) ==
    /\ running /\ pc[t] = "set_lock"
    /\ lock = Free
    /\ lock' = t
    /\ sh' = [sh EXCEPT ![t] = Call(t)]
    /\ pc' = [pc EXCEPT ![t] = IF arg[t] # layout THEN "set_dispatch"
                                ELSE "set_unlock"]
    /\ UNCHANGED <<running, ctx, arg, layout, external, extChanges, toggles,
                   observing, launched, pending, iconLayout, shown, ret,
                   created, primed, changes, notified, seen, dirty, race,
                   togRead, applied, atFail, bgFailed, lastSet, wire>>

\* a set_layout that drops the guard right after the store, before line 112
set_layout_store_unlocked(t) ==
    /\ running /\ pc[t] = "set_lock"
    /\ lock = Free
    /\ sh' = [sh EXCEPT ![t] = Call(t)]
    /\ IF arg[t] # layout
       THEN /\ layout' = arg[t]
            /\ changes' = changes + 1
            /\ dirty' = DirtyAfterWrite(t)
            /\ race' = RaceAfterWrite(t)
            /\ lock' = Free
            /\ pc' = [pc EXCEPT ![t] = "set_dispatch"]
       ELSE /\ UNCHANGED <<layout, changes, dirty, race>>
            /\ lock' = t
            /\ pc' = [pc EXCEPT ![t] = "set_unlock"]
    /\ UNCHANGED <<running, ctx, arg, external, extChanges, toggles, observing,
                   launched, pending, iconLayout, shown, ret, created, primed,
                   notified, seen, togRead, applied, atFail, bgFailed, lastSet, wire>>

\* lines 107-110: lock() waits for the Mutex; under it, if new_layout differs
\* from inner.layout it is stored (notify_all wakes nobody: nothing waits on the
\* Condvar)
set_layout_store(t) ==
    /\ running /\ pc[t] = "set_lock"
    /\ lock = Free
    /\ lock' = t
    /\ sh' = [sh EXCEPT ![t] = Call(t)]
    /\ IF arg[t] # layout
       THEN /\ layout' = arg[t]
            /\ changes' = changes + 1
            /\ dirty' = DirtyAfterWrite(t)
            /\ race' = RaceAfterWrite(t)
            /\ pc' = [pc EXCEPT ![t] = "set_dispatch"]
       ELSE /\ UNCHANGED <<layout, changes, dirty, race>>
            /\ pc' = [pc EXCEPT ![t] = "set_unlock"]
    /\ UNCHANGED <<running, ctx, arg, external, extChanges, toggles, observing,
                   launched, pending, iconLayout, shown, ret, created, primed,
                   notified, seen, togRead, applied, atFail, bgFailed, lastSet, wire>>

\* a set_layout whose line 112 is missing: nothing is enqueued
set_layout_dispatch_dropped(t) ==
    /\ running /\ pc[t] = "set_dispatch"
    /\ pc' = [pc EXCEPT ![t] = "set_unlock"]
    /\ UNCHANGED <<running, ctx, arg, layout, lock, external, extChanges,
                   toggles, observing, launched, pending, iconLayout, shown,
                   ret, created, primed, changes, notified, sh, seen, dirty,
                   race, togRead, applied, atFail, bgFailed, lastSet, wire>>

\* line 112: App::dispatch_main(Message::UpdateIcon), an asynchronous enqueue on
\* the main queue, made inside the if, the guard still alive
set_layout_dispatch(t) ==
    /\ running /\ pc[t] = "set_dispatch"
    /\ pending' = pending + 1
    /\ notified' = notified + 1
    /\ race' = IF race.open /\ ctx[t] # "toggle"
               THEN [race EXCEPT !.fires = @ + 1] ELSE race
    /\ pc' = [pc EXCEPT ![t] = "set_unlock"]
    /\ UNCHANGED <<running, ctx, arg, layout, lock, external, extChanges,
                   toggles, observing, launched, iconLayout, shown, ret,
                   created, primed, changes, sh, seen, dirty, togRead, applied,
                   atFail, bgFailed, lastSet, wire>>

\* line 114: the guard is dropped and set_layout returns ()
set_layout_return(t) ==
    /\ running /\ pc[t] = "set_unlock"
    /\ lock' = Free
    /\ ret' = [ret EXCEPT ![t] = "unit"]
    /\ pc' = [pc EXCEPT ![t] = AfterSet(t)]
    /\ ctx' = [ctx EXCEPT ![t] = IF t = "poller" THEN "update" ELSE "none"]
    /\ primed' = (primed \/ ctx[t] = "prime")
    /\ sh' = [sh EXCEPT ![t] = NoCall]
    /\ seen' = [seen EXCEPT ![t] = NoLayout]
    /\ dirty' = [dirty EXCEPT ![t] = FALSE]
    /\ race' = IF race.open /\ ctx[t] # "toggle"
               THEN [race EXCEPT !.left = @ - 1] ELSE race
    /\ togRead' = IF ctx[t] = "toggle" THEN NoLayout ELSE togRead
    /\ applied' = IF ctx[t] = "toggle" THEN NoLayout ELSE applied
    /\ lastSet' = arg[t]
    /\ UNCHANGED <<running, arg, layout, external, extChanges, toggles,
                   observing, launched, pending, iconLayout, shown, created,
                   changes, notified, atFail, bgFailed, wire>>

\* ------------------------------------------------------------- YabaiMenu

\* App::run() delivers did_finish_launching before the run loop hands out
\* anything else: the status item and its action are stored (lines 208-218),
\* then update_icon() is called (line 219)
did_finish_launching ==
    /\ running /\ pc["main"] = "run"
    /\ launched' = TRUE
    /\ pc' = [pc EXCEPT !["main"] = "icon_read"]
    /\ UNCHANGED <<running, ctx, arg, layout, lock, external, extChanges,
                   toggles, observing, pending, iconLayout, shown, ret, created,
                   primed, changes, notified, sh, seen, dirty, race, togRead,
                   applied, atFail, bgFailed, lastSet, wire>>

\* a delegate that renders on its own schedule, no message taken off the queue
on_ui_message_unprompted ==
    /\ running /\ pc["main"] = "loop"
    /\ pc' = [pc EXCEPT !["main"] = "icon_read"]
    /\ UNCHANGED <<running, ctx, arg, layout, lock, external, extChanges,
                   toggles, observing, launched, pending, iconLayout, shown,
                   ret, created, primed, changes, notified, sh, seen, dirty,
                   race, togRead, applied, atFail, bgFailed, lastSet, wire>>

\* lines 197-200: the main queue hands one Message::UpdateIcon to the delegate,
\* which calls update_icon()
on_ui_message ==
    /\ running /\ pc["main"] = "loop"
    /\ pending > 0
    /\ pending' = pending - 1
    /\ pc' = [pc EXCEPT !["main"] = "icon_read"]
    /\ UNCHANGED <<running, ctx, arg, layout, lock, external, extChanges,
                   toggles, observing, launched, iconLayout, shown, ret,
                   created, primed, changes, notified, sh, seen, dirty, race,
                   togRead, applied, atFail, bgFailed, lastSet, wire>>

\* line 163: the layout is cloned under the lock, the guard dropped at once
update_icon_read ==
    /\ running /\ pc["main"] = "icon_read"
    /\ lock = Free
    /\ iconLayout' = layout
    /\ pc' = [pc EXCEPT !["main"] = "icon_render"]
    /\ UNCHANGED <<running, ctx, arg, layout, lock, external, extChanges,
                   toggles, observing, launched, pending, shown, ret, created,
                   primed, changes, notified, sh, seen, dirty, race, togRead,
                   applied, atFail, bgFailed, lastSet, wire>>

\* lines 164-177: the image and the tooltip of the cloned layout are set
update_icon_render ==
    /\ running /\ pc["main"] = "icon_render"
    /\ shown' = iconLayout
    /\ iconLayout' = NoLayout
    /\ pc' = [pc EXCEPT !["main"] = "loop"]
    /\ UNCHANGED <<running, ctx, arg, layout, lock, external, extChanges,
                   toggles, observing, launched, pending, ret, created, primed,
                   changes, notified, sh, seen, dirty, race, togRead, applied,
                   atFail, bgFailed, lastSet, wire>>

\* the user clicks the status item: RustAction::call runs the closure of line 211
\* on the main thread
Click ==
    /\ running /\ pc["main"] = "loop"
    /\ toggles < MaxToggles
    /\ toggles' = toggles + 1
    /\ pc' = [pc EXCEPT !["main"] = "tog_read"]
    /\ UNCHANGED <<running, ctx, arg, layout, lock, external, extChanges,
                   observing, launched, pending, iconLayout, shown, ret,
                   created, primed, changes, notified, sh, seen, dirty, race,
                   togRead, applied, atFail, bgFailed, lastSet, wire>>

\* a toggle_layout without the block of lines 182-188: the guard lives on to
\* the end of the function
toggle_layout_read_held ==
    /\ running /\ pc["main"] = "tog_read"
    /\ lock = Free
    /\ lock' = "main"
    /\ togRead' = layout
    /\ arg' = [arg EXCEPT !["main"] = Opposite(layout)]
    /\ pc' = [pc EXCEPT !["main"] = "tog_apply"]
    /\ UNCHANGED <<running, ctx, layout, external, extChanges, toggles,
                   observing, launched, pending, iconLayout, shown, ret,
                   created, primed, changes, notified, sh, seen, dirty, race,
                   applied, atFail, bgFailed, lastSet, wire>>

\* lines 182-188: the opposite of inner.layout, computed under the lock; the
\* guard is dropped at the end of the block
toggle_layout_read ==
    /\ running /\ pc["main"] = "tog_read"
    /\ lock = Free
    /\ togRead' = layout
    /\ arg' = [arg EXCEPT !["main"] = Opposite(layout)]
    /\ pc' = [pc EXCEPT !["main"] = "tog_apply"]
    /\ UNCHANGED <<running, ctx, layout, lock, external, extChanges, toggles,
                   observing, launched, pending, iconLayout, shown, ret,
                   created, primed, changes, notified, sh, seen, dirty, race,
                   applied, atFail, bgFailed, lastSet, wire>>

\* line 189: `yabai -m space --layout <layout>` runs and exits 0; line 190 goes
\* on to set_layout(layout)
change_space_layout_ok ==
    /\ running /\ pc["main"] = "tog_apply"
    /\ external' = arg["main"]
    /\ applied' = arg["main"]
    /\ pc' = [pc EXCEPT !["main"] = "set_lock"]
    /\ ctx' = [ctx EXCEPT !["main"] = "toggle"]
    /\ UNCHANGED <<running, arg, layout, lock, extChanges, toggles, observing,
                   launched, pending, iconLayout, shown, ret, created, primed,
                   changes, notified, sh, seen, dirty, race, togRead, atFail,
                   bgFailed, lastSet, wire>>

\* a toggle that drops the Err of run() and goes on to set_layout
change_space_layout_ignored ==
    /\ running /\ pc["main"] = "tog_apply"
    /\ atFail' = [failed |-> TRUE, layout |-> layout, notified |-> notified]
    /\ pc' = [pc EXCEPT !["main"] = "set_lock"]
    /\ ctx' = [ctx EXCEPT !["main"] = "toggle"]
    /\ UNCHANGED <<running, arg, layout, lock, external, extChanges, toggles,
                   observing, launched, pending, iconLayout, shown, ret,
                   created, primed, changes, notified, sh, seen, dirty, race,
                   togRead, applied, bgFailed, lastSet, wire>>

\* lines 51-53: the command cannot be spawned or exits non-zero, run() is an Err
\* and unwrap() panics inside the extern "C" action method: the process aborts
\* and line 190 is not reached
change_space_layout_panic ==
    /\ running /\ pc["main"] = "tog_apply"
    /\ atFail' = [failed |-> TRUE, layout |-> layout, notified |-> notified]
    /\ running' = FALSE
    /\ UNCHANGED <<pc, ctx, arg, layout, lock, external, extChanges, toggles,
                   observing, launched, pending, iconLayout, shown, ret,
                   created, primed, changes, notified, sh, seen, dirty, race,
                   togRead, applied, bgFailed, lastSet, wire>>

\* ------------------------------------------------------- WorkspaceObserver

\* line 246: NSWorkspace posts the notification on the main thread, whose run
\* loop calls the observer: YabaiState::shared().update()
observeActiveSpaceDidChangeNotification ==
    /\ running /\ observing /\ pc["main"] = "loop"
    /\ pc' = [pc EXCEPT !["main"] = "upd_query"]
    /\ ctx' = [ctx EXCEPT !["main"] = "update"]
    /\ UNCHANGED <<running, arg, layout, lock, external, extChanges, toggles,
                   observing, launched, pending, iconLayout, shown, ret,
                   created, primed, changes, notified, sh, seen, dirty, race,
                   togRead, applied, atFail, bgFailed, lastSet, wire>>

\* -------------------------------------------------------------- environment

\* the layout of the active space changes by other means: another tool, or the
\* user moving to a space of the other layout
ExternalChange ==
    /\ running
    /\ extChanges < MaxExtChanges
    /\ extChanges' = extChanges + 1
    /\ external' \in YabaiSpaceLayout \ {external}
    /\ UNCHANGED <<running, pc, ctx, arg, layout, lock, toggles, observing,
                   launched, pending, iconLayout, shown, ret, created, primed,
                   changes, notified, sh, seen, dirty, race, togRead, applied,
                   atFail, bgFailed, lastSet, wire>>

\* ------------------------------------------------------------ specification

Next ==
    \/ SharedInit
    \/ SpawnPoller
    \/ AddObserver
    \/ \E t \in Threads : update_query(t)
    \/ shared_query_panic
    \/ observer_query_panic
    \/ poller_query_panic_unwind
    \/ poller_query_panic_abort
    \/ \E t \in Threads : set_layout_store(t)
    \/ \E t \in Threads : set_layout_dispatch(t)
    \/ \E t \in Threads : set_layout_return(t)
    \/ did_finish_launching
    \/ on_ui_message
    \/ update_icon_read
    \/ update_icon_render
    \/ Click
    \/ toggle_layout_read
    \/ change_space_layout_ok
    \/ change_space_layout_panic
    \/ observeActiveSpaceDidChangeNotification
    \/ ExternalChange

Spec == Init /\ [][Next]_vars

\* what the main thread does by itself once it is scheduled
MainStep ==
    \/ SharedInit
    \/ SpawnPoller
    \/ AddObserver
    \/ did_finish_launching
    \/ on_ui_message
    \/ update_icon_read
    \/ update_icon_render
    \/ toggle_layout_read
    \/ change_space_layout_ok

\* what a thread inside update() / set_layout does once it is scheduled
ThreadStep(t) ==
    \/ update_query(t)
    \/ set_layout_store(t)
    \/ set_layout_dispatch(t)
    \/ set_layout_return(t)

\* the scheduler runs every thread that can take a step; clicks, notifications,
\* outside changes and failing commands are owed to nobody
FairSpec ==
    /\ Spec
    /\ WF_vars(MainStep)
    /\ \A t \in Threads : WF_vars(ThreadStep(t))

\* ---------------------------------------- update() on any output of the query

\* the poller, inside update() at line 117, has run the command and holds its
\* output `wire`; the application is launched and idle, the icon shows the
\* stored layout
InitParse ==
    /\ running = TRUE
    /\ pc = [t \in Threads |-> IF t = "main" THEN "loop" ELSE "upd_query"]
    /\ ctx = [t \in Threads |-> IF t = "main" THEN "none" ELSE "update"]
    /\ arg = [t \in Threads |-> NoLayout]
    /\ layout \in YabaiSpaceLayout
    /\ lock = Free
    /\ external = layout
    /\ extChanges = 0
    /\ toggles = 0
    /\ observing = TRUE
    /\ launched = TRUE
    /\ pending = 0
    /\ iconLayout = NoLayout
    /\ shown = layout
    /\ ret = [t \in Threads |-> IF t = "main" THEN "unit" ELSE "none"]
    /\ created = 1
    /\ primed = TRUE
    /\ changes = 0
    /\ notified = 0
    /\ sh = [t \in Threads |-> NoCall]
    /\ seen = [t \in Threads |-> IF t = "main" THEN NoLayout ELSE layout]
    /\ dirty = [t \in Threads |-> FALSE]
    /\ race = NoRace
    /\ togRead = NoLayout
    /\ applied = NoLayout
    /\ atFail = NoFail
    /\ bgFailed = FALSE
    /\ lastSet = layout
    /\ wire \in Responses

\* line 47: from_str gives Ok, line 118 goes on with its r#type
from_str_ok == update_parsed("poller", wire)

\* line 47: from_str gives Err, the unwrap() panics in the poller
from_str_err ==
    /\ from_str(wire) = NoLayout
    /\ \/ poller_query_panic_unwind
       \/ poller_query_panic_abort

NextParse ==
    \/ from_str_ok
    \/ from_str_err
    \/ set_layout_store("poller")
    \/ set_layout_dispatch("poller")
    \/ set_layout_return("poller")

SpecParse == InitParse /\ [][NextParse]_vars

TypeOK ==
    /\ running \in BOOLEAN
    /\ pc \in [Threads -> {"start", "unspawned", "upd_query", "set_lock",
                           "set_dispatch", "set_unlock", "spawn", "observe", "run",
                           "icon_read", "icon_render", "loop", "tog_read",
                           "tog_apply", "dead"}]
    /\ layout \in YabaiSpaceLayout \cup {NoLayout}
    /\ lock \in Threads \cup {Free}
    /\ external \in YabaiSpaceLayout
    /\ pending \in Nat
    /\ extChanges <= MaxExtChanges
    /\ toggles <= MaxToggles
    /\ created <= 1
    /\ wire \in Responses
    /\ lastSet \in YabaiSpaceLayout \cup {NoLayout}

\* ------------------------------------------------------------------ claims

\* a thread inside set_layout
SetPcs == {"set_lock", "set_dispatch", "set_unlock"}

\* C1 (as amended): for every mode m, a set_layout(m) that finds inner.layout
\* equal to m is a no-op: it goes straight to the end of the function, with
\* inner.layout still m and not one UpdateIcon dispatched since it took the
\* lock; set_layout returns (), never a boolean.
C1_NoOpSet ==
    \A t \in Threads :
        /\ ret[t] \in {"none", "unit"}
        /\ sh[t].cmp = "same" =>
              /\ pc[t] = "set_unlock"
              /\ lock = t
              /\ layout = arg[t]
              /\ notified = sh[t].n0

\* C1 witness: a set_layout that found its argument stored already, about to
\* return, after some other call had changed the layout and notified
C1_Witness ==
    \E t \in Threads :
        /\ pc[t] = "set_unlock"
        /\ sh[t].cmp = "same"
        /\ ret[t] = "unit"
        /\ notified > 0

\* C1 as stated: the no-op call leaves the layout and the notifications alone
\* and returns false
C1_Original ==
    [][\A t \in Threads :
          (pc[t] = "set_unlock" /\ sh[t].cmp = "same" /\ pc'[t] # "set_unlock")
          => (layout' = layout /\ notified' = notified /\ ret'[t] = "false")]_vars

\* C2: the number of UpdateIcon messages dispatched equals the number of times
\* inner.layout changed value, but for the one call that has stored and is
\* about to dispatch; a call that changed the layout has dispatched exactly one
\* message when it returns, and the layout is then its argument.
C2_NotificationsMatchChanges ==
    /\ notified + Cardinality({t \in Threads : pc[t] = "set_dispatch"}) = changes
    /\ \A t \in Threads :
          (pc[t] = "set_unlock" /\ sh[t].cmp = "differ")
          => (notified = sh[t].n0 + 1 /\ layout = arg[t])

\* C2 witness: the poller observed Bsp while Float was stored; the layout is now
\* Bsp and exactly one more message has been dispatched
C2_Witness ==
    /\ pc["poller"] = "set_unlock"
    /\ sh["poller"].cmp = "differ"
    /\ seen["poller"] = "Float"
    /\ layout = "Bsp"
    /\ notified = sh["poller"].n0 + 1
    /\ changes = notified
    /\ changes >= 2

\* C3: when the update() of the poller and the update() of the observer overlap,
\* both having queried the same layout v, and no toggle writes in between, at
\* most one of the two dispatches an UpdateIcon; once both have returned,
\* exactly one was dispatched if v differs from the layout stored when the
\* first of them queried, and none if it is equal.
C3_OneNotificationPerRace ==
    (race.open /\ ~race.dirty) =>
        /\ race.fires <= 1
        /\ race.left = 0 => race.fires = (IF race.v # race.prev THEN 1 ELSE 0)

\* C3 witness: both overlapping refreshes of a new layout have returned, one
\* message was dispatched
C3_Witness ==
    /\ race.open /\ ~race.dirty
    /\ race.left = 0
    /\ race.v # race.prev
    /\ race.fires = 1

\* C4 (as amended): when toggle_layout calls change_space_layout, the layout it
\* requests is the opposite of the inner.layout it read under the lock: Bsp
\* after reading Float, Float after reading Bsp.
C4_RequestsOppositeOfRead ==
    pc["main"] = "tog_apply" =>
        /\ togRead \in YabaiSpaceLayout
        /\ togRead = "Float" => arg["main"] = "Bsp"
        /\ togRead = "Bsp" => arg["main"] = "Float"
        /\ arg["main"] # togRead

\* C4 witness: the toggle is about to request a layout, and the poller has
\* written since the toggle read
C4_Witness ==
    /\ pc["main"] = "tog_apply"
    /\ togRead = "Float"
    /\ arg["main"] = "Bsp"
    /\ layout # togRead

\* C4 as stated: at the call of change_space_layout the requested layout differs
\* from the layout then held in the shared state
C4_Original == pc["main"] = "tog_apply" => arg["main"] # layout

\* C5: once a change_space_layout of a toggle has failed, that toggle does not
\* enter set_layout; inner.layout and the number of dispatched messages are what
\* they were when the command failed.
C5_FailedApplyLeavesState ==
    atFail.failed =>
        /\ pc["main"] \notin SetPcs
        /\ pc["main"] = "tog_apply"
        /\ layout = atFail.layout
        /\ notified = atFail.notified

\* C5 witness: the toggle read Bsp, its change_space_layout(Float) failed, and
\* Bsp is still stored
C5_Witness ==
    /\ atFail.failed
    /\ togRead = "Bsp"
    /\ arg["main"] = "Float"
    /\ layout = "Bsp"

\* C6 as stated: a failing change_space_layout of a toggle does not end the
\* process
C6_FailedApplyKeepsRunning == atFail.failed => running

\* C7: the toggle is inside set_layout only after its change_space_layout has
\* succeeded, and with the layout it applied; once that set_layout has compared,
\* inner.layout is the applied layout.
C7_SetAfterApply ==
    (ctx["main"] = "toggle" /\ pc["main"] \in SetPcs) =>
        /\ applied \in YabaiSpaceLayout
        /\ applied = arg["main"]
        /\ applied = Opposite(togRead)
        /\ ~atFail.failed
        /\ pc["main"] \in {"set_dispatch", "set_unlock"} => layout = applied

\* C7 witness: the toggle read Bsp, applied Float, and its set_layout is about
\* to return with Float stored
C7_Witness ==
    /\ ctx["main"] = "toggle"
    /\ pc["main"] = "set_unlock"
    /\ togRead = "Bsp"
    /\ applied = "Float"
    /\ layout = "Float"

\* C8 as stated: no state has the process running after a query failed in the
\* poller or in the observer
C8_BackgroundFailureIsFatal == bgFailed => ~running

\* a step that changes the outside layout, starts a toggle, or is a failed query
Trouble ==
    \/ ExternalChange
    \/ Click
    \/ shared_query_panic
    \/ observer_query_panic
    \/ poller_query_panic_unwind
    \/ poller_query_panic_abort

\* C9 as stated: if the process keeps running and from some point on the
\* outside layout stops changing, no toggle starts and no query fails, then
\* inner.layout eventually equals the outside layout and stays equal
C9_EventualCorrectness ==
    ([]running /\ <>[][~Trouble]_vars) => <>[](layout = external)

\* C10: the OnceCell is filled once, with Float; the poller is spawned, the
\* application launched, and inner.layout read by update_icon or by
\* toggle_layout, only after the update() inside shared() has returned.
C10_PrimedBeforeRead ==
    /\ created <= 1
    /\ (created = 1 /\ ~primed /\ pc["main"] \in {"upd_query", "set_lock"})
          => layout = DefaultLayout
    /\ ( \/ pc["main"] \in {"icon_read", "icon_render", "tog_read", "tog_apply"}
         \/ iconLayout # NoLayout
         \/ togRead # NoLayout
         \/ shown # NoLayout
         \/ pc["poller"] # "unspawned"
         \/ launched )
          => (primed /\ created = 1 /\ ret["main"] = "unit")

\* C10 witness: the first render, in did_finish_launching, has read Bsp: what
\* the priming query stored, not the default
C10_Witness ==
    /\ pc["main"] = "icon_render"
    /\ shown = NoLayout
    /\ iconLayout = "Bsp"
    /\ primed

\* C11 as stated: the thread that handles UI events is never inside an
\* external-process call: neither inside the apply of the toggle action nor
\* inside the query of the desktop-change notification callback
C11_NoExternalCallOnUiThread ==
    /\ pc["main"] # "tog_apply"
    /\ ~ (pc["main"] = "upd_query" /\ ctx["main"] = "update")

\* C12: update() on a well-formed output whose type is "bsp" goes on with Bsp,
\* on one whose type is "float" with Float, and goes on with nothing else; on
\* an output whose type is missing or is no layout name the parse fails (the
\* poller panics), set_layout is not called and inner.layout stays what it
\* was: Float is not taken as a fallback
C12_ParseOrFail ==
    /\ pc["poller"] \in SetPcs =>
          /\ wire.json /\ wire.fields = OtherFields
          /\ \/ wire.type = "bsp" /\ arg["poller"] = "Bsp"
             \/ wire.type = "float" /\ arg["poller"] = "Float"
    /\ (wire.json /\ wire.fields = OtherFields /\ wire.type \in {"bsp", "float"})
          => (running /\ pc["poller"] # "dead")
    /\ wire.type \notin {"bsp", "float"} =>
          /\ pc["poller"] \in {"upd_query", "dead"}
          /\ arg["poller"] = NoLayout
          /\ layout = seen["poller"]
          /\ changes = 0

\* C12 witness: a well-formed output of type "stack" met inner.layout = Bsp; the
\* parse has failed and inner.layout is still Bsp
C12_Witness ==
    /\ wire.json /\ wire.fields = OtherFields /\ wire.type = "stack"
    /\ bgFailed
    /\ pc["poller"] = "dead"
    /\ layout = "Bsp"

\* C13 (as amended): a set_layout that changes inner.layout stores the new
\* value and dispatches the UpdateIcon message while it still holds the lock;
\* the lock is released only when set_layout returns, after the dispatch
C13_DispatchUnderLock ==
    [][\A t \in Threads :
          /\ (pc[t] = "set_dispatch" /\ pc'[t] # "set_dispatch") =>
                /\ lock = t /\ lock' = t
                /\ layout = arg[t] /\ layout' = layout
                /\ notified' = notified + 1
                /\ pending' = pending + 1
          /\ (lock = t /\ lock' # t) =>
                (pc[t] = "set_unlock" /\ notified' = notified)]_vars

\* C13 witness: a set_layout that stored a new value has dispatched its message
\* and still holds the lock
C13_Witness ==
    \E t \in Threads :
        /\ pc[t] = "set_unlock"
        /\ sh[t].cmp = "differ"
        /\ notified = sh[t].n0 + 1
        /\ lock = t

\* C13 as stated: no UpdateIcon is dispatched while the calling thread holds
\* the lock
C13_Original ==
    [][\A t \in Threads :
          (pc[t] = "set_dispatch" /\ notified' = notified + 1) => lock # t]_vars

\* C14: writes of inner.layout happen one at a time, under the lock, and the
\* last set wins: while a set_layout call holds the lock past its compare and
\* store, inner.layout is the argument of that call; in every other state, so
\* whenever a reader can take the lock, inner.layout is the argument of the
\* set_layout call that returned last (the default Float if none has)
C14_LastSetWins ==
    created = 1 =>
        /\ layout \in YabaiSpaceLayout
        /\ \A t \in Threads :
              (pc[t] \in {"set_dispatch", "set_unlock"}) <=> (lock = t)
        /\ \A t \in Threads : lock = t => layout = arg[t]
        /\ lock = Free =>
              layout = (IF lastSet = NoLayout THEN DefaultLayout ELSE lastSet)

\* C14 witness: set_layout calls of both threads have returned, inner.layout
\* has changed twice and holds the argument of the last call
C14_Witness ==
    /\ lock = Free
    /\ changes >= 2
    /\ ret["poller"] = "unit"
    /\ layout = lastSet
    /\ pc["main"] = "loop"

\* C15 as stated: while the process is running the poller thread, once
\* spawned, is alive
C15_PollerAlive ==
    running => pc["poller"] # "dead"

\* C16 (as amended): update_icon runs once in did_finish_launching, with no
\* message and whether or not inner.layout has ever changed, and after that
\* only for an UpdateIcon message taken off the queue, which a change of
\* inner.layout has dispatched; it reads inner.layout as it is when it runs,
\* shows what it read, and never modifies inner.layout
C16_RenderOnNotification ==
    [][/\ (pc'["main"] = "icon_read" /\ pc["main"] # "icon_read") =>
             \/ pc["main"] = "run" /\ ~launched /\ shown = NoLayout
             \/ /\ pc["main"] = "loop" /\ launched
                /\ pending = pending' + 1
                /\ notified >= 1 /\ changes >= 1
       /\ (pc["main"] = "icon_read" /\ pc'["main"] # "icon_read") =>
             (iconLayout' = layout /\ layout' = layout)
       /\ (pc["main"] = "icon_render" /\ pc'["main"] # "icon_render") =>
             (shown' = iconLayout /\ layout' = layout)]_vars

\* C16 witness: a render after the first one, so one made for a message, has
\* read the layout stored now
C16_Witness ==
    /\ pc["main"] = "icon_render"
    /\ shown # NoLayout
    /\ iconLayout = layout
    /\ changes >= 1

\* C16 as stated: every render is caused by a change notification and none
\* happens without a preceding change of inner.layout
C16_Original ==
    [][(pc'["main"] = "icon_read" /\ pc["main"] # "icon_read") =>
          (pending = pending' + 1 /\ changes >= 1)]_vars

\* C17 (as amended): the type of an output is matched case-sensitively against
\* the lower-case variant names: only "bsp" and "float" are parsed to a
\* layout; "BSP", "Bsp", "FLOAT" and "Float" are a parse failure, after which
\* set_layout is not called and inner.layout stays what it was
C17_CaseSensitive ==
    /\ pc["poller"] \in SetPcs => wire.type \in {"bsp", "float"}
    /\ wire.type \in {"BSP", "Bsp", "FLOAT", "Float"} =>
          /\ pc["poller"] \in {"upd_query", "dead"}
          /\ arg["poller"] = NoLayout
          /\ layout = lastSet

\* C17 witness: a well-formed output of type "BSP" met inner.layout = Float; the
\* parse has failed and inner.layout is still Float
C17_Witness ==
    /\ wire.json /\ wire.fields = OtherFields /\ wire.type = "BSP"
    /\ ~running
    /\ bgFailed
    /\ layout = "Float"

\* C17 as stated: a well-formed output whose type is a layout name in any
\* letter case is not rejected as a parse failure
C17_Original ==
    (/\ wire.json /\ wire.fields = OtherFields
     /\ wire.type \in {"bsp", "Bsp", "BSP", "float", "Float", "FLOAT"})
        => (running /\ pc["poller"] # "dead")

\* C18 (as amended): after did_finish_launching, whenever the layout shown
\* differs from inner.layout, an UpdateIcon message is pending, or a writer
\* that has stored is about to dispatch one, or the main thread is inside
\* update_icon before its read, or past its read with the layout stored now;
\* so with the queue drained, no writer about to dispatch and no render in
\* progress, the layout shown is inner.layout
C18_StaleIconHasCause ==
    (launched /\ shown # layout) =>
        \/ pending >= 1
        \/ \E t \in Threads : pc[t] = "set_dispatch"
        \/ pc["main"] = "icon_read"
        \/ pc["main"] = "icon_render" /\ iconLayout = layout

\* C18 witness: the icon shows a layout, inner.layout has moved on, the main
\* thread is idle and the message is on the queue
C18_Witness ==
    /\ launched
    /\ shown \in YabaiSpaceLayout
    /\ shown # layout
    /\ pc["main"] = "loop"
    /\ pending >= 1

\* C18 as stated: after did_finish_launching, whenever the layout shown differs
\* from inner.layout an UpdateIcon message is pending
C18_Original ==
    (launched /\ shown # layout) => pending >= 1

\* C19: no thread holds the lock while its external-process call is in
\* progress (the query of update(), the apply of toggle_layout), and no thread
\* that is about to take the lock (in set_layout, in toggle_layout, in
\* update_icon) holds it already
C19_NoLockAcrossExternalCall ==
    \A t \in Threads :
        pc[t] \in {"upd_query", "tog_apply", "set_lock", "tog_read", "icon_read"}
            => lock # t

\* C19 witness: the apply of a toggle is in progress on the main thread while
\* the poller holds the lock inside set_layout
C19_Witness ==
    /\ pc["main"] = "tog_apply"
    /\ lock = "poller"

====
